---- MODULE Spec2Model ----
(***************************************************************************)
(* Model of intake/readers/readers.py: the reader base contract            *)
(* (BaseReader.read and its multi-file fan-out, check_imports), the        *)
(* concrete reader classes, the DuckDB reader's cached connection, and     *)
(* recommend().                                                            *)
(*                                                                         *)
(* Keyword-argument mappings are functions from a set of key strings to    *)
(* value strings.  External callables (the backend load function, the      *)
(* concat function, duckdb.connect, importlib.metadata.distribution) are   *)
(* oracles: their invocations are logged and their outcome (a value or an  *)
(* exception) is an input of the calling action.                           *)
(***************************************************************************)
EXTENDS Integers, Sequences, FiniteSets, TLC

VARIABLES
    reader,     \* the reader instance of the read/glimpse machine: its class and class attributes
    data,       \* the data descriptor the readers are bound to (self.data)
    last,       \* record of the latest read/glimpse call: inputs, backend invocations, outcome
    lookup,     \* package name -> outcome of importlib.metadata.distribution(name)
    recOut,     \* record of the latest recommend() call
    ciOut,      \* record of the latest check_imports() call
    dd,         \* DuckDB instance -> the connection cached as self._dd
    conns,      \* connections opened so far by duckdb.connect(), in order
    returned    \* artifacts handed to the caller by DuckDB readers

vars == <<reader, data, last, lookup, recOut, ciOut, dd, conns, returned>>

-----------------------------------------------------------------------------
(* Bounds *)

MaxFiles == 3

MaxConns == 3

MaxInstances == 2

-----------------------------------------------------------------------------
(* Values *)

None == "None"

NoResult == [tag |-> "none"]

NoError == "no error"

Files == {"f1", "f2"}

Urls == {"u", "f1"}

StoredVals == {"0"}

OverrideVals == {"1"}

StorageOpts == {"so"}

\* every sequence over S of length lo..hi
SeqsUpTo(S, lo, hi) == UNION {[1..n -> S] : n \in lo..hi}

\* every keyword mapping with keys among K and values among V
KwargSpace(K, V) == UNION {[D -> V] : D \in SUBSET K}

Put(kw, k, v) == [j \in (DOMAIN kw) \cup {k} |-> IF j = k THEN v ELSE kw[j]]

-----------------------------------------------------------------------------
(* Data kinds (intake.readers.datatypes) and the reader classes *)

DataTypes == {"Parquet", "CSV", "JSONFile", "SQLQuery", "Other"}

Classes == {"Pandas", "PandasParquet", "DaskParquet", "DuckDB", "PandasDuck",
            "Awkward", "AwkwardParquet", "PandasCSV"}

\* class statement: direct base class
Base(cls) ==
    CASE cls = "Pandas"         -> "BaseReader"
      [] cls = "PandasParquet"  -> "Pandas"
      [] cls = "DaskParquet"    -> "BaseReader"
      [] cls = "DuckDB"         -> "BaseReader"
      [] cls = "PandasDuck"     -> "Pandas"
      [] cls = "Awkward"        -> "BaseReader"
      [] cls = "AwkwardParquet" -> "Awkward"
      [] cls = "PandasCSV"      -> "Pandas"

\* cls.imports after attribute inheritance
imports(cls) ==
    CASE cls = "Pandas"         -> {"pandas"}
      [] cls = "PandasParquet"  -> {"pandas"}
      [] cls = "DaskParquet"    -> {"dask.dataframe"}
      [] cls = "DuckDB"         -> {"duckdb"}
      [] cls = "PandasDuck"     -> {"duckdb", "pandas"}
      [] cls = "Awkward"        -> {"awkward"}
      [] cls = "AwkwardParquet" -> {"awkward", "pyarrow"}
      [] cls = "PandasCSV"      -> {"pandas"}

\* cls.implements after attribute inheritance
implements(cls) ==
    CASE cls = "Pandas"         -> {}
      [] cls = "PandasParquet"  -> {"Parquet"}
      [] cls = "DaskParquet"    -> {"Parquet"}
      [] cls = "DuckDB"         -> {"Parquet", "CSV", "JSONFile", "SQLQuery"}
      [] cls = "PandasDuck"     -> {"Parquet", "CSV", "JSONFile", "SQLQuery"}
      [] cls = "Awkward"        -> {}
      [] cls = "AwkwardParquet" -> {"Parquet"}
      [] cls = "PandasCSV"      -> {"CSV"}

\* cls.func
func(cls) ==
    CASE cls = "Pandas"         -> "builtins:NotImplementedError"
      [] cls = "PandasParquet"  -> "pandas:read_parquqet"
      [] cls = "DaskParquet"    -> "dask.dataframe:read_parquet"
      [] cls = "Awkward"        -> "builtins:NotImplementedError"
      [] cls = "AwkwardParquet" -> "awkward:from_parquet"
      [] cls = "PandasCSV"      -> "pandas:read_csv"
      [] OTHER                  -> "builtins:NotImplementedError"

\* cls.concat_func
concat_func(cls) ==
    CASE cls = "Pandas"         -> "pandas:concat"
      [] cls = "PandasParquet"  -> None
      [] cls = "PandasDuck"     -> "pandas:concat"
      [] cls = "PandasCSV"      -> "pandas:concat"
      [] OTHER                  -> None

\* cls.url_arg
url_arg(cls) ==
    CASE cls = "PandasParquet"  -> "path"
      [] cls = "DaskParquet"    -> "path"
      [] cls = "AwkwardParquet" -> "path"
      [] cls = "PandasCSV"      -> "filepath_or_buffer"
      [] OTHER                  -> None

\* cls.storage_options: no class of the module overrides the base default
storage_options(cls) == FALSE

\* the classes whose read is BaseReader.read and whose func is a name
BaseReadClasses == Classes \ {"DuckDB", "PandasDuck"}

ClassReader(cls) ==
    [cls |-> cls, func |-> func(cls), concat_func |-> concat_func(cls),
     url_arg |-> url_arg(cls), storage_options |-> storage_options(cls)]

\* a subclass of BaseReader defined by the user of the module: it may set
\* each overridable class attribute, here the ones read() consults
SubclassReaders ==
    {[cls |-> "Subclass", func |-> "user:load", concat_func |-> c,
      url_arg |-> u, storage_options |-> TRUE] :
        c \in {"user:concat"}, u \in {None, "path"}}

Readers == {ClassReader(c) : c \in BaseReadClasses} \cup SubclassReaders

\* the keyword names a caller or a descriptor may use with reader r
KwKeys(r) ==
    {"x"} \cup ({r.url_arg} \ {None})
               \cup (IF r.storage_options THEN {"storage_options"} ELSE {})

-----------------------------------------------------------------------------
(* BaseReader.read *)

\* intake.import_name: a qualified name resolves to the callable it names
import_name(name) == name

copyShared(d) == [shared |-> TRUE, val |-> d]

\* dict.copy(): a new mapping with the same items, not shared with the descriptor
copy(d) == [shared |-> FALSE, val |-> d]

\* the items of the mapping behind handle h
Val(st, h) == IF h.shared THEN st.data.kwargs ELSE h.val

\* assignment of items nv to the mapping behind handle h
Store(st, h, nv) == IF h.shared THEN [st EXCEPT !.data.kwargs = nv] ELSE st

SetVal(h, nv) == [h EXCEPT !.val = nv]

DictUpdateKeep(d, other) ==
    [k \in (DOMAIN d) \cup (DOMAIN other) |-> IF k \in DOMAIN d THEN d[k] ELSE other[k]]

\* d.update(other): the items of other win
DictUpdate(d, other) ==
    [k \in (DOMAIN d) \cup (DOMAIN other) |-> IF k \in DOMAIN other THEN other[k] ELSE d[k]]

IsMultiFileOrSingle(filelist) == Len(filelist) >= 1

\* len(filelist) > 1
IsMultiFile(filelist) == Len(filelist) > 1

\* number of the next call to an external callable within this read
NextEvent(st) == Len(st.calls) + Len(st.concats) + 1

\* self._func(**kw): resolve the load function and invoke it
CallFunc(r, st, kw) ==
    LET st1 == [st EXCEPT !.resolved = Append(@, import_name(r.func)),
                          !.calls = Append(@, kw)]
    IN  IF NextEvent(st) = st.failAt
        THEN [st |-> st1, ret |-> NoResult, exc |-> "BackendError"]
        ELSE [st |-> st1, ret |-> [tag |-> "artifact", func |-> r.func, kw |-> kw],
              exc |-> NoError]

\* concat(parts)
CallConcat(r, st, parts) ==
    LET st1 == [st EXCEPT !.concats = Append(@, parts)]
    IN  IF NextEvent(st) = st.failAt
        THEN [st |-> st1, ret |-> NoResult, exc |-> "BackendError"]
        ELSE [st |-> st1,
              ret |-> [tag |-> "concat", func |-> r.concat_func, parts |-> parts],
              exc |-> NoError]

RECURSIVE read(_, _, _)
RECURSIVE FanOutLoop(_, _, _, _, _)

FanOutLoopSwallow(r, st, h, i, parts) ==
    IF i > Len(st.data.filelist)
    THEN CallConcat(r, st, parts)
    ELSE LET kw  == Put(Val(st, h), r.url_arg, st.data.filelist[i])
             st1 == Store(st, h, kw)
             sub == read(r, st1, kw)
         IN  IF sub.exc # NoError
             THEN FanOutLoop(r, sub.st, SetVal(h, kw), i + 1, parts)
             ELSE FanOutLoop(r, sub.st, SetVal(h, kw), i + 1, Append(parts, sub.ret))

\* for afile in filelist: kw[url_arg] = afile; parts.append(self.read(**kw))
\* and then return concat(parts); an exception of a sub-load leaves the loop
FanOutLoop(r, st, h, i, parts) ==
    IF i > Len(st.data.filelist)
    THEN CallConcat(r, st, parts)
    ELSE LET kw  == Put(Val(st, h), r.url_arg, st.data.filelist[i])
             st1 == Store(st, h, kw)
             sub == read(r, st1, kw)
         IN  IF sub.exc # NoError
             THEN [st |-> sub.st, ret |-> NoResult, exc |-> sub.exc]
             ELSE FanOutLoop(r, sub.st, SetVal(h, kw), i + 1, Append(parts, sub.ret))

\* BaseReader.read(self, **kwargs)
read(r, st, kwargs) ==
    LET h   == copy(st.data.kwargs)
        kw1 == DictUpdate(Val(st, h), kwargs)
        st1 == Store(st, h, kw1)
        kw2 == IF r.storage_options
               THEN Put(kw1, "storage_options", st1.data.storage_options)
               ELSE kw1
        st2 == Store(st1, h, kw2)
    IN  IF /\ r.url_arg # None
           /\ r.url_arg \notin DOMAIN kwargs
           /\ r.concat_func # None
           /\ IsMultiFile(st2.data.filelist)
        THEN FanOutLoop(r,
                        [st2 EXCEPT !.resolved = Append(@, import_name(r.concat_func))],
                        SetVal(h, kw2), 1, <<>>)
        ELSE LET kw3 == IF r.url_arg # None
                        THEN Put(kw2, r.url_arg, st2.data.url)
                        ELSE kw2
             IN  CallFunc(r, Store(st2, h, kw3), kw3)

\* BaseReader.glimpse, AwkwardParquet.glimpse, PandasCSV.glimpse
glimpse(r, st, kwargs) ==
    CASE r.cls = "AwkwardParquet" ->
            read(r, st, Put(kwargs, "row_groups", "[0]"))
      [] r.cls = "PandasCSV" ->
            IF Len(st.data.filelist) = 0
            THEN [st |-> st, ret |-> NoResult, exc |-> "IndexError"]
            ELSE read(r, st, DictUpdate([k \in {"nrows", r.url_arg} |->
                                            IF k = "nrows" THEN "10"
                                            ELSE st.data.filelist[1]],
                                        kwargs))
      [] OTHER -> [st |-> st, ret |-> NoResult, exc |-> "NotImplementedError"]

\* the evaluation state a call starts in
Start(d, f) == [data |-> d, failAt |-> f, calls |-> <<>>, resolved |-> <<>>,
                concats |-> <<>>]

\* what the caller and the external callables saw of one call
CallRecord(op, O, f, res) ==
    [op |-> op, overrides |-> O, failAt |-> f, calls |-> res.st.calls,
     resolved |-> res.st.resolved, concats |-> res.st.concats,
     ret |-> res.ret, exc |-> res.exc]

NoCall == [op |-> "none"]

-----------------------------------------------------------------------------
(* Initial values of the parts a specification does not exercise *)

NoLookup == [p \in {} |-> "found"]

NoRec == [op |-> "none"]

NoCheck == [op |-> "none"]

NoDuck == [i \in {} |-> 0]

NoReader == [cls |-> "none"]

\* the descriptor has no conn attribute
NoConn == [kind |-> "absent"]

-----------------------------------------------------------------------------
(* The read/glimpse machine: one reader bound to one descriptor *)

InitRead ==
    /\ reader \in Readers
    /\ data \in [type : {"CSV"}, url : Urls,
                 filelist : SeqsUpTo(Files, 0, MaxFiles),
                 kwargs : KwargSpace(KwKeys(reader), StoredVals),
                 storage_options : StorageOpts,
                 conn : {NoConn}, query : {None}]
    /\ last = NoCall
    /\ lookup = NoLookup /\ recOut = NoRec /\ ciOut = NoCheck
    /\ dd = NoDuck /\ conns = <<>> /\ returned = {}

\* the caller invokes reader.read(**O); external call number f raises (0: none)
Read(O, f) ==
    LET res == read(reader, Start(data, f), O)
    IN  /\ last' = CallRecord("read", O, f, res)
        /\ data' = res.st.data
        /\ UNCHANGED <<reader, lookup, recOut, ciOut, dd, conns, returned>>

\* the caller invokes reader.glimpse(**O)
Glimpse(O, f) ==
    LET res == glimpse(reader, Start(data, f), O)
    IN  /\ last' = CallRecord("glimpse", O, f, res)
        /\ data' = res.st.data
        /\ UNCHANGED <<reader, lookup, recOut, ciOut, dd, conns, returned>>

\* the overrides a caller may pass
Overrides == KwargSpace(KwKeys(reader), OverrideVals)

\* number of calls to external callables that reader.read(**O) makes when
\* none of them raises
ReadEvents(O) == NextEvent(read(reader, Start(data, 0), O).st) - 1

\* the same for reader.glimpse(**O)
GlimpseEvents(O) == NextEvent(glimpse(reader, Start(data, 0), O).st) - 1

NextRead ==
    \/ \E O \in Overrides : \E f \in 0..ReadEvents(O) : Read(O, f)
    \/ \E O \in Overrides : \E f \in 0..GlimpseEvents(O) : Glimpse(O, f)

SpecRead == InitRead /\ [][NextRead]_vars

-----------------------------------------------------------------------------
(* check_imports and recommend *)

Packages == UNION {imports(c) : c \in Classes}

\* outcomes of importlib.metadata.distribution(name): the distribution, the
\* PackageNotFoundError of a name that is not installed, or an error of the
\* lookup itself (ValueError is what it raises for an empty name)
Outcomes == {"found", "PackageNotFoundError", "ValueError"}

\* except (ImportError, ModuleNotFoundError, NameError), with the subclasses
\* of the listed exception classes
Caught(e) == e \in {"ImportError", "ModuleNotFoundError", "PackageNotFoundError",
                    "NameError"}

\* BaseReader.check_imports: the outcomes the loop over the set cls.imports
\* can have; the first lookup that raises ends it, and a set has no fixed
\* iteration order
check_imports(cls, lk) ==
    LET raising == {p \in imports(cls) : lk[p] # "found"}
    IN  IF raising = {}
        THEN {[ret |-> "True", exc |-> NoError]}
        ELSE {IF Caught(lk[p])
              THEN [ret |-> "False", exc |-> NoError]
              ELSE [ret |-> "none", exc |-> lk[p]] : p \in raising}

RECURSIVE issubclass(_, _)
\* cls is base or derives from it through its chain of direct bases
issubclass(cls, base) ==
    IF cls = base THEN TRUE
    ELSE IF cls = "BaseReader" THEN FALSE
    ELSE issubclass(Base(cls), base)

\* intake.readers.utils.subclasses: every direct or indirect subclass
subclasses(base) == {c \in Classes : c # base /\ issubclass(c, base)}

\* truth value of the attribute cls.check_imports, a bound method object
MethodTruth(cls) == TRUE

recommendAll(d, check) == subclasses("BaseReader")

\* recommend(data, check_imports)
recommend(d, check) ==
    {cls \in subclasses("BaseReader") :
        /\ d.type \in implements(cls)
        /\ ~(check /\ ~MethodTruth(cls))}

InitRec ==
    /\ reader = NoReader
    /\ data \in [type : DataTypes, url : {"u"}, filelist : {<<"f1">>},
                 kwargs : {<<>>}, storage_options : StorageOpts,
                 conn : {NoConn}, query : {None}]
    /\ last = NoCall
    /\ lookup \in [Packages -> Outcomes]
    /\ recOut = NoRec /\ ciOut = NoCheck
    /\ dd = NoDuck /\ conns = <<>> /\ returned = {}

\* the caller invokes recommend(data, check_imports=check)
Recommend(check) ==
    /\ recOut' = [op |-> "recommend", check |-> check,
                  out |-> recommend(data, check), exc |-> NoError]
    /\ UNCHANGED <<reader, data, last, lookup, ciOut, dd, conns, returned>>

\* the caller invokes cls.check_imports()
CheckImports(cls) ==
    \E res \in check_imports(cls, lookup) :
        /\ ciOut' = [op |-> "check_imports", cls |-> cls,
                     ret |-> res.ret, exc |-> res.exc]
        /\ UNCHANGED <<reader, data, last, lookup, recOut, dd, conns, returned>>

NextRec ==
    \/ \E check \in BOOLEAN : Recommend(check)
    \/ \E cls \in Classes : CheckImports(cls)

SpecRec == InitRec /\ [][NextRec]_vars

-----------------------------------------------------------------------------
(* The DuckDB reader: instances bound to one descriptor *)

Instances == 1..MaxInstances

\* conn = getattr(self.data, "conn", {}); a string becomes {"database": conn}
ConnectArgs(d) ==
    CASE d.conn.kind = "absent" -> [k \in {} |-> None]
      [] d.conn.kind = "str"    -> [k \in {"database"} |-> d.conn.value]
      [] d.conn.kind = "dict"   -> d.conn.value

\* the types the queries dict of DuckDB.func has a template for
QueryTypes == {"Parquet", "CSV", "JSONFile", "SQLQuery"}

\* queries[type(self.data)].format(**locals()): the pieces of the query text
Query(d) ==
    CASE d.type = "Parquet"  -> <<"SELECT * FROM read_parquet('", d.url, "')">>
      [] d.type = "CSV"      -> <<"SELECT * FROM read_csv_auto('", d.url, "')">>
      [] d.type = "JSONFile" -> <<"SELECT * FROM read_json_auto('", d.url, "')">>
      [] d.type = "SQLQuery" -> <<d.query>>

\* DuckDB.func of instance i: duckdb.connect opens a new connection, which is
\* cached as self._dd, and the query of the descriptor's type runs on it
duckfunc(i, d, cache, cs, fail) ==
    IF fail = "connect"
    THEN [dd |-> cache, conns |-> cs, ret |-> NoResult, exc |-> "ConnectError"]
    ELSE LET c  == Len(cs) + 1
             cs1 == Append(cs, ConnectArgs(d))
             cache1 == [cache EXCEPT ![i] = c]
         IN  IF d.type \notin QueryTypes
             THEN [dd |-> cache1, conns |-> cs1, ret |-> NoResult, exc |-> "KeyError"]
             ELSE IF fail = "query"
             THEN [dd |-> cache1, conns |-> cs1, ret |-> NoResult, exc |-> "BackendError"]
             ELSE [dd |-> cache1, conns |-> cs1,
                   ret |-> [tag |-> "relation", inst |-> i, conn |-> c,
                            query |-> Query(d), limit |-> None],
                   exc |-> NoError]

\* DuckDB.glimpse: self.read().limit(10)
duckglimpse(i, d, cache, cs, fail) ==
    LET res == duckfunc(i, d, cache, cs, fail)
    IN  IF res.exc # NoError THEN res
        ELSE [res EXCEPT !.ret.limit = "10"]

InitDuck ==
    /\ reader = NoReader
    /\ data \in [type : DataTypes, url : {"u"}, filelist : {<<"f1">>},
                 kwargs : {<<>>}, storage_options : StorageOpts,
                 conn : {NoConn, [kind |-> "str", value |-> "db"],
                         [kind |-> "dict", value |-> [database |-> "db"]]},
                 query : {"SELECT 1"}]
    /\ last = NoCall
    /\ lookup = NoLookup /\ recOut = NoRec /\ ciOut = NoCheck
    /\ dd = [i \in Instances |-> 0] /\ conns = <<>> /\ returned = {}

DuckDone(op, i, fail, res) ==
    /\ dd' = res.dd
    /\ conns' = res.conns
    /\ returned' = IF res.exc = NoError THEN returned \cup {res.ret} ELSE returned
    /\ last' = [op |-> op, inst |-> i, fail |-> fail, ret |-> res.ret, exc |-> res.exc]
    /\ UNCHANGED <<reader, data, lookup, recOut, ciOut>>

\* the caller invokes read() on DuckDB instance i: BaseReader.read has no
\* url_arg to set for this class and calls self.func(**kw)
DuckRead(i, fail) ==
    /\ Len(conns) < MaxConns
    /\ DuckDone("duck.read", i, fail, duckfunc(i, data, dd, conns, fail))

\* the caller invokes glimpse() on DuckDB instance i
DuckGlimpse(i, fail) ==
    /\ Len(conns) < MaxConns
    /\ DuckDone("duck.glimpse", i, fail, duckglimpse(i, data, dd, conns, fail))

\* outcomes of the external calls of DuckDB.func: which of them raises
DuckFails == {"none", "connect", "query"}

NextDuck ==
    \/ \E i \in Instances, fail \in DuckFails : DuckRead(i, fail)
    \/ \E i \in Instances, fail \in DuckFails : DuckGlimpse(i, fail)

SpecDuck == InitDuck /\ [][NextDuck]_vars

-----------------------------------------------------------------------------
(* Properties of read and glimpse, checked under SpecRead *)

\* the load function's result for keyword arguments kw
Artifact(kw) == [tag |-> "artifact", func |-> reader.func, kw |-> kw]

\* read() takes the fan-out path: the class has a URL parameter and a concat
\* function, the caller did not pass the URL parameter, several files
FanOutCase ==
    /\ last.op = "read"
    /\ reader.url_arg # None
    /\ reader.concat_func # None
    /\ reader.url_arg \notin DOMAIN last.overrides
    /\ Len(data.filelist) > 1

\* C1: on the fan-out path of a load in which nothing raises, the backend is
\* invoked once per file, the k-th invocation gets the k-th file URL under
\* url_arg, and concat is called once with the per-file results in file order
C1_FanOutPerFile ==
    (FanOutCase /\ last.failAt = 0) =>
        /\ Len(last.calls) = Len(data.filelist)
        /\ \A k \in DOMAIN last.calls :
              /\ k \in DOMAIN data.filelist
              /\ last.calls[k][reader.url_arg] = data.filelist[k]
        /\ last.concats = <<[k \in DOMAIN last.calls |-> Artifact(last.calls[k])]>>

\* preview of a PandasCSV reader without URL override on a non-empty file list
CsvGlimpseCase ==
    /\ last.op = "glimpse"
    /\ reader.cls = "PandasCSV"
    /\ reader.url_arg \notin DOMAIN last.overrides
    /\ Len(data.filelist) >= 1

\* C4: PandasCSV.glimpse without URL override invokes the backend exactly
\* once, with nrows = 10 and the URL parameter equal to the first file of the
\* file list, and never fans out
C4_GlimpseFirstFile ==
    CsvGlimpseCase =>
        /\ Len(last.calls) = 1
        /\ last.calls[1]["nrows"] = "10"
        /\ last.calls[1][reader.url_arg] = data.filelist[1]
        /\ last.concats = <<>>

\* C6 as stated: every backend invocation of a load has O[k] for every key k
\* of the overrides O other than the URL parameter and the storage-options
\* key, and S[k] for every key of the stored kwargs S that is not in O
C6_OverridePrecedenceAllStoredKeys ==
    last.op = "read" =>
        \A n \in DOMAIN last.calls :
            /\ \A k \in (DOMAIN last.overrides) \ {reader.url_arg, "storage_options"} :
                  k \in DOMAIN last.calls[n] /\ last.calls[n][k] = last.overrides[k]
            /\ \A k \in (DOMAIN data.kwargs) \ (DOMAIN last.overrides) :
                  k \in DOMAIN last.calls[n] /\ last.calls[n][k] = data.kwargs[k]

\* C6 amended: the same, with the URL parameter and the storage-options key
\* excepted among the stored keys too
C6_OverridePrecedence ==
    last.op = "read" =>
        \A n \in DOMAIN last.calls :
            /\ \A k \in (DOMAIN last.overrides) \ {reader.url_arg, "storage_options"} :
                  k \in DOMAIN last.calls[n] /\ last.calls[n][k] = last.overrides[k]
            /\ \A k \in ((DOMAIN data.kwargs) \ (DOMAIN last.overrides))
                            \ {reader.url_arg, "storage_options"} :
                  k \in DOMAIN last.calls[n] /\ last.calls[n][k] = data.kwargs[k]

\* a fan-out load whose overrides collide with the stored kwargs on key x
C6_Witness ==
    /\ FanOutCase
    /\ Len(last.calls) >= 2
    /\ "x" \in DOMAIN data.kwargs
    /\ "x" \in DOMAIN last.overrides
    /\ data.kwargs["x"] # last.overrides["x"]
    /\ last.calls[2]["x"] = last.overrides["x"]

\* a load by a class with URL parameter and concat function on a one-file list
SingleFileCase ==
    /\ last.op = "read"
    /\ reader.url_arg # None
    /\ reader.concat_func # None
    /\ Len(data.filelist) = 1

\* what the load function does when invoked once by hand with kw
ByHand(kw) == CallFunc(reader, Start(data, last.failAt), kw)

\* C7 as stated: with exactly one file f, load invokes the backend exactly
\* once with the URL parameter equal to f, neither resolves nor invokes
\* concat, and returns the backend's result unchanged
C7_SingleFileGetsFile ==
    SingleFileCase =>
        /\ Len(last.calls) = 1
        /\ last.calls[1][reader.url_arg] = data.filelist[1]
        /\ last.concats = <<>>
        /\ \A n \in DOMAIN last.resolved : last.resolved[n] # reader.concat_func
        /\ last.ret = ByHand(last.calls[1]).ret
        /\ last.exc = ByHand(last.calls[1]).exc

\* C7 amended: with exactly one file, load invokes the backend exactly once
\* with the URL parameter equal to the descriptor's primary URL, neither
\* resolves nor invokes concat, and its outcome is the backend's outcome
C7_SingleFileNoConcat ==
    SingleFileCase =>
        /\ Len(last.calls) = 1
        /\ last.calls[1][reader.url_arg] = data.url
        /\ last.concats = <<>>
        /\ \A n \in DOMAIN last.resolved : last.resolved[n] # reader.concat_func
        /\ last.ret = ByHand(last.calls[1]).ret
        /\ last.exc = ByHand(last.calls[1]).exc

\* a PandasCSV load of a one-file descriptor whose URL is not that file
C7_Witness ==
    /\ SingleFileCase
    /\ reader.cls = "PandasCSV"
    /\ data.url # data.filelist[1]
    /\ last.exc = NoError
    /\ last.ret = Artifact(last.calls[1])

\* C8: when the sub-load of the k-th file raises during fan-out, load fails
\* with that exception, no file after the k-th is loaded, concat is not
\* invoked and nothing is returned
C8_FanOutFailsFast ==
    (FanOutCase /\ last.failAt \in 1..Len(data.filelist)) =>
        /\ last.exc = "BackendError"
        /\ Len(last.calls) = last.failAt
        /\ last.concats = <<>>
        /\ last.ret = NoResult

\* the second of three sub-loads raises
C8_Witness ==
    /\ FanOutCase
    /\ Len(data.filelist) = 3
    /\ last.failAt = 2
    /\ Len(last.calls) = 2
    /\ last.exc = "BackendError"

\* C10: a load leaves the descriptor as it was, and a load that repeats the
\* overrides (and backend outcomes) of the load before it invokes the backend
\* with the same keyword arguments
C10_ReadLeavesDescriptor ==
    [][last'.op = "read" =>
          /\ data' = data
          /\ (/\ last.op = "read"
              /\ last'.overrides = last.overrides
              /\ last'.failAt = last.failAt) => last'.calls = last.calls]_vars

\* a fan-out load with overrides on a descriptor with stored kwargs
C10_Witness ==
    /\ FanOutCase
    /\ Len(last.calls) >= 2
    /\ last.overrides # <<>>
    /\ data.kwargs # <<>>

-----------------------------------------------------------------------------
(* Properties of recommend and check_imports, checked under SpecRec *)

\* some required dependency of class V is not resolvable
MissingImport(V) == \E p \in imports(V) : lookup[p] # "found"

\* C2: a class with a required dependency that is not resolvable is not in
\* recommend(D, check_imports=True)
C2_RecommendChecksImports ==
    (recOut.op = "recommend" /\ recOut.check) =>
        \A V \in Classes : MissingImport(V) => V \notin recOut.out

\* C3: a class is in recommend(D, check_imports=False) exactly if the type of
\* D is in its implements set, and the call raises nothing
C3_RecommendIffImplements ==
    (recOut.op = "recommend" /\ ~recOut.check) =>
        /\ recOut.exc = NoError
        /\ \A V \in Classes : V \in recOut.out <=> data.type \in implements(V)

\* recommend for a CSV descriptor picks PandasCSV, an indirect subclass of
\* BaseReader, and leaves out its base Pandas
C3_Witness ==
    /\ recOut.op = "recommend"
    /\ ~recOut.check
    /\ data.type = "CSV"
    /\ "PandasCSV" \in recOut.out
    /\ "Pandas" \notin recOut.out

\* C5: check_imports raises nothing; it returns True when every required
\* name is found and False when a lookup fails, whatever the failure
C5_CheckImportsNeverRaises ==
    ciOut.op = "check_imports" =>
        /\ ciOut.exc = NoError
        /\ ciOut.ret = IF MissingImport(ciOut.cls) THEN "False" ELSE "True"

-----------------------------------------------------------------------------
(* Properties of the DuckDB reader, checked under SpecDuck *)

\* C9: the connection of every artifact a DuckDB instance has returned is the
\* one that instance caches as _dd, and no two instances cache the same connection
C9_ConnectionOwned ==
    /\ \A a \in returned : dd[a.inst] = a.conn
    /\ \A i, j \in DOMAIN dd : (i # j /\ dd[i] # 0) => dd[i] # dd[j]

====
